---- MODULE Spec2Model ----
(***************************************************************************)
(* A model of coupon_clipper.py: the session/statistics store, the click   *)
(* cascade, the content loader, the rate-limit detector with its backoff,  *)
(* and the main clipping loop of CouponClipper.clip_coupons together with  *)
(* the SIGINT handler installed by CouponClipper.__init__.                 *)
(***************************************************************************)
EXTENDS Integers, Sequences, FiniteSets, TLC

(***************************************************************************)
(* Bounds of the model (not program constants).                            *)
(***************************************************************************)
MaxRecords == 5
MaxRateCalls == 22
MaxButtons == 2
MaxDisturbances == 2
MaxSigints == 1
MaxSavedRecords == 9
MaxLosses == 4

\* Keys of config["websites"] used by the model (three of the six defaults).
Websites == {"foodlion", "weis", "harris_teeter"}

\* Coupon ids returned by _extract_coupon_id (or the "unknown_<time>" placeholder).
CouponIds == {"a", "b"}

NoFile == [total |-> -1]

VARIABLES
    \* ---- SessionManager.data ----
    total_clipped,      \* data['statistics']['total_clipped']
    by_website,         \* data['statistics']['by_website'], a dict
    clipped_coupons,    \* data['clipped_coupons'], website -> set of coupon ids
    last_website,       \* data['last_website']
    disk,               \* what the last successful pickle.dump wrote
    record_calls,       \* history: number of record_clipped_coupon calls
    \* ---- one call of _enhanced_click_button ----
    click_in,           \* what the browser does to each operation of the call
    click_out,          \* the call's return value and the strategies it attempted
    \* ---- one call of _load_all_content ----
    load_pc,            \* "idle", "loop", "exit" (after break), "done", "raised"
    max_attempts,       \* settings["load_more_max_attempts"]
    iterations,         \* the local of that name
    load_more_attempts, \* the local of that name
    content_changed,    \* the local of that name
    content_growth,     \* the local of that name, Unbound until first assigned
    growth_pending,     \* len(page_source) - previous_page_source_length
    loop_iters,         \* history: executions of the while body
    scroll_passes,      \* history: scroll passes started
    scroll_max,         \* history: most scroll attempts made by one pass
    final_passes,       \* history: scroll passes made after the loop
    recheck_growth,     \* history: the growth re-measured by the last iteration's
                        \*          re-check, Unbound if it made none
    \* ---- rate-limit detector and backoff (fields of CouponClipper) ----
    rate_limit_count,   \* self.rate_limit_count
    backoff_time,       \* self.backoff_time, in units of 1/BackoffScale second
    rate_settings,      \* the settings _is_rate_limited reads
    last_check,         \* history: the last _is_rate_limited call of this run
    consec_seen,        \* history: consecutive checks of this run whose page
                        \*          showed a rate-limit indication
    last_wait,          \* history: the last _handle_rate_limit call of this run
    rate_calls,         \* history: calls made (checks and handles)
    \* ---- the process: main(), clip_coupons and the SIGINT handler ----
    pc,                 \* where the process is
    website_key,        \* the argument of the running clip_coupons call
    driver,             \* self.driver: "none", "ok", "lost" (connection broken), "quit"
    shutdown_requested, \* self.shutdown_requested
    exit_status,        \* << >> while the process runs, <<code>> once it has exited
    ret,                \* << >>, or <<value>> returned by clip_coupons
    ret_reason,         \* history: why clip_coupons returned
    settings,           \* the entries of config["settings"] the loop reads
    i,                  \* the loop index
    nbuttons,           \* len(coupon_buttons)
    buttons_updated,    \* the local of that name
    buttons_live,       \* coupon_buttons are usable references: found in the driver's
                        \* current session, on a page not re-rendered since
    clipped_count,      \* the local of that name
    already_clipped_count, \* the local of that name
    connection_check_counter, \* the local of that name
    already_clipped_map,   \* rapid mode's pre-check, a sequence of booleans
    already_clipped,    \* the classification of coupon_buttons[i]
    consecutive_success,   \* self.consecutive_success
    rate_limit_hit,     \* self.rate_limit_hit
    connection_attempt_count, \* self.connection_attempt_count
    clicks,             \* history: clicks delivered to coupon buttons in this pass of the loop
    refreshes,          \* history: driver.refresh() calls in this pass of the loop
    sigints,            \* history: SIGINTs delivered
    handler_log,        \* history: what the last run of the handler did, in order
    captcha,            \* history: the CAPTCHA being handled, and what happened since
    disturbances,       \* history: events the environment has produced
    conn_log,           \* history: the check_driver_connection calls of the last
                        \*          operation, and the operator's answer to its prompt
    reconnects,         \* history: reconnection attempts started since
                        \*          connection_attempt_count was last reset
    \* ---- the click delays of one clip_coupons run, in milliseconds ----
    delays              \* the delay entries of settings, the operator's answers
                        \* and the locals min_delay, max_delay

sessVars == <<total_clipped, by_website, clipped_coupons, last_website, disk, record_calls>>
clickVars == <<click_in, click_out>>
loadVars == <<load_pc, max_attempts, iterations, load_more_attempts, content_changed,
              content_growth, growth_pending, loop_iters, scroll_passes, scroll_max,
              final_passes, recheck_growth>>

rateVars == <<rate_limit_count, backoff_time, rate_settings, last_check, consec_seen,
              last_wait, rate_calls>>

procVars == <<pc, website_key, driver, shutdown_requested, exit_status, ret, ret_reason,
              settings>>
loopVars == <<i, nbuttons, buttons_updated, buttons_live, clipped_count, already_clipped_count,
              connection_check_counter, already_clipped_map, already_clipped,
              consecutive_success, rate_limit_hit, connection_attempt_count>>
histVars == <<clicks, refreshes, sigints, handler_log, captcha, disturbances>>

auxVars == <<conn_log, reconnects, delays>>

vars == <<sessVars, clickVars, loadVars, rateVars, procVars, loopVars, histVars, auxVars>>

(***************************************************************************)
(* SessionManager                                                          *)
(***************************************************************************)
RECURSIVE SumOver(_, _)
SumOver(f, S) ==
    IF S = {} THEN 0
    ELSE LET w == CHOOSE x \in S : TRUE IN f[w] + SumOver(f, S \ {w})

\* SessionManager.__init__ with no session file on disk.
SessionInit ==
    /\ total_clipped = 0
    /\ by_website = << >>
    /\ clipped_coupons = << >>
    /\ last_website = "None"
    /\ disk = NoFile
    /\ record_calls = 0

\* The value pickle.dump writes.
Snapshot(total, byw, last) == [total |-> total, by |-> byw, last |-> last]

\* save_session(): True and the file rewritten, or False (exception swallowed).
SaveSession(total, byw, last, ok) ==
    IF ok THEN Snapshot(total, byw, last) ELSE disk

\* dict update d[k] = v
DictSet(d, k, v) == [x \in (DOMAIN d) \cup {k} |-> IF x = k THEN v ELSE d[x]]

DictGet(d, k, dflt) == IF k \in DOMAIN d THEN d[k] ELSE dflt

\* A faulty update: the website's count is created but not incremented.
BadNewByWebsite(website) == DictSet(by_website, website, DictGet(by_website, website, 0))

\* The statistics update of record_clipped_coupon.
NewByWebsite(website) == DictSet(by_website, website, DictGet(by_website, website, 0) + 1)

\* A faulty period: a save every sixth coupon.
BadSaveDue(total) == total % 6 = 0

\* "Save every few coupons": total_clipped % 5 == 0
SaveDue(total) == total % 5 = 0

\* record_clipped_coupon(website, coupon_id); ok is whether a due save succeeds.
RecordClippedCoupon(website, coupon_id, ok) ==
    /\ clipped_coupons' = DictSet(clipped_coupons, website,
                                  DictGet(clipped_coupons, website, {}) \cup {coupon_id})
    /\ total_clipped' = total_clipped + 1
    /\ by_website' = NewByWebsite(website)
    /\ disk' = IF SaveDue(total_clipped + 1)
               THEN SaveSession(total_clipped + 1, NewByWebsite(website), last_website, ok)
               ELSE disk
    /\ record_calls' = record_calls + 1
    /\ UNCHANGED last_website

\* set_last_website(website)
SetLastWebsite(website, ok) ==
    /\ last_website' = website
    /\ disk' = SaveSession(total_clipped, by_website, website, ok)
    /\ UNCHANGED <<total_clipped, by_website, clipped_coupons, record_calls>>

SessRecord ==
    /\ record_calls < MaxRecords
    /\ \E w \in Websites, c \in CouponIds, ok \in BOOLEAN : RecordClippedCoupon(w, c, ok)

SessSetLast ==
    \E w \in Websites, ok \in BOOLEAN : SetLastWebsite(w, ok)

SessNext == SessRecord \/ SessSetLast

\* The same calls on a disk where every pickle.dump succeeds.
SessRecordSaved ==
    /\ record_calls < MaxSavedRecords
    /\ \E w \in Websites, c \in CouponIds : RecordClippedCoupon(w, c, TRUE)

SessSetLastSaved ==
    \E w \in Websites : SetLastWebsite(w, TRUE)

SessSavedNext == SessRecordSaved \/ SessSetLastSaved

\* statistics.total_clipped of the session a restart would load: the one in
\* the file, or the 0 of SessionManager.__init__ when there is no file
LoadedTotal == IF disk = NoFile THEN 0 ELSE disk.total

(***************************************************************************)
(* CouponClipper._enhanced_click_button                                    *)
(***************************************************************************)
\* The six click techniques, in the order of the source.
Strategies == <<"native", "js", "action_chain", "coordinate", "parent", "enter">>

NumStrategies == Len(Strategies)

\* What the browser can do to one call: each operation either works or raises;
\* is_displayed()/is_enabled() answer True or False or raise; the size is
\* fine, too small (< 5 px) or raises.
ClickOutcomes ==
    [scroll : {"ok", "raise"},
     displayed : {"true", "false", "raise"},
     enabled : {"true", "false", "raise"},
     size : {"ok", "small", "raise"},
     works : [1..NumStrategies -> BOOLEAN]]

\* The preamble of the outer try: scrollIntoView, is_displayed(), is_enabled(),
\* button.size. "pass", or why the call returns False before any click.
PreCheck(o) ==
    IF o.scroll = "raise" THEN "raised"
    ELSE IF o.displayed = "raise" THEN "raised"
    ELSE IF o.displayed = "false" THEN "not_clickable"
    ELSE IF o.enabled = "raise" THEN "raised"
    ELSE IF o.enabled = "false" THEN "not_clickable"
    ELSE IF o.size = "raise" THEN "raised"
    ELSE IF o.size = "small" THEN "too_small"
    ELSE "pass"

\* A faulty cascade: no return after a technique that worked, so every
\* technique is attempted.
RECURSIVE BadCascade(_, _, _)
BadCascade(o, k, tried) ==
    IF k > NumStrategies
    THEN LET worked == {j \in 1..NumStrategies : o.works[j]} IN
         [result |-> worked # {}, attempted |-> tried,
          clicked |-> IF worked = {} THEN "none"
                      ELSE Strategies[CHOOSE j \in worked : \A m \in worked : j <= m]]
    ELSE BadCascade(o, k + 1, Append(tried, Strategies[k]))

\* The cascade from technique k on: each technique is tried in turn; the first
\* that does not raise returns True.
RECURSIVE Cascade(_, _, _)
Cascade(o, k, tried) ==
    IF k > NumStrategies THEN [result |-> FALSE, attempted |-> tried, clicked |-> "none"]
    ELSE IF o.works[k]
         THEN [result |-> TRUE, attempted |-> Append(tried, Strategies[k]),
               clicked |-> Strategies[k]]
         ELSE Cascade(o, k + 1, Append(tried, Strategies[k]))

\* _enhanced_click_button(button) under outcome o.
EnhancedClickButton(o) ==
    IF PreCheck(o) # "pass"
    THEN [result |-> FALSE, attempted |-> << >>, clicked |-> "none"]
    ELSE Cascade(o, 1, << >>)

NoCall == [result |-> FALSE, attempted |-> <<"idle">>, clicked |-> "none"]

\* no call in progress
ClickIdle ==
    /\ click_in = "none"
    /\ click_out = NoCall

\* a call is entered with some behaviour of the browser
ClickStart ==
    /\ click_in \in ClickOutcomes
    /\ click_out = NoCall

ClickCall ==
    /\ click_out = NoCall
    /\ click_out' = EnhancedClickButton(click_in)
    /\ UNCHANGED click_in

(***************************************************************************)
(* CouponClipper._load_all_content and the scroll passes                   *)
(***************************************************************************)
max_iterations == 8
max_scroll_attempts == 3
DefaultLoadMoreMaxAttempts == 10

\* "significant growth" thresholds of the page source, in characters
GrowthThreshold == 500
MinimalGrowth == 1000

\* by how much the page source can have grown between two reads
Growths == {0, 499, 500, 501, 1000}

\* a local that is not assigned yet / that holds n
Unbound == << >>
Bound(n) == <<n>>

\* one read of driver.page_source: it raises, or shows the page grown by g
PageReads == [raise : {FALSE}, g : Growths] \cup {[raise |-> TRUE, g |-> 0]}

\* One scroll pass (_scroll_to_load_all, either branch, and
\* _human_scroll_to_load_all): the number of scroll attempts it makes when
\* grows[k] says whether the k-th attempt changed document.body.scrollHeight.
\* The page's document.body.scrollHeight keeps changing for the first
\* `growing` scroll attempts of the pass and is unchanged afterwards.
\* scroll_attempts counts from 0; the loop runs while it is below the maximum
\* and breaks when the height is unchanged.
RECURSIVE ScrollAttempts(_, _)
ScrollAttempts(growing, scroll_attempts) ==
    IF ~(scroll_attempts < max_scroll_attempts) THEN scroll_attempts
    ELSE IF scroll_attempts + 1 > growing THEN scroll_attempts + 1
    ELSE ScrollAttempts(growing, scroll_attempts + 1)

\* how the page answers one scroll pass: execute_script raises, or the height
\* keeps growing for 0..max_scroll_attempts+1 attempts
ScrollBehaviours ==
    [raise : {FALSE}, growing : 0..(max_scroll_attempts + 1)]
        \cup {[raise |-> TRUE, growing |-> 0]}

\* _scroll_to_load_all / _human_scroll_to_load_all: scroll attempts made
ScrollToLoadAll(b) == IF b.raise THEN 0 ELSE ScrollAttempts(b.growing, 0)

Max(a, b) == IF a >= b THEN a ELSE b

\* A faulty while condition: the load-more attempts are not limited.
BadLoopCond(changed, attempts, maxatt, iters) ==
    changed /\ iters < max_iterations

\* the while condition of _load_all_content
LoopCond(changed, attempts, maxatt, iters) ==
    changed /\ attempts < maxatt /\ iters < max_iterations

\* entry of _load_all_content
LoadStart ==
    /\ load_pc = "loop"
    /\ max_attempts \in {1, 3, DefaultLoadMoreMaxAttempts}
    /\ iterations = 0
    /\ load_more_attempts = 0
    /\ content_changed = TRUE
    /\ content_growth = Unbound
    /\ growth_pending = 0
    /\ loop_iters = 0
    /\ scroll_passes = 0
    /\ scroll_max = 0
    /\ final_passes = 0
    /\ recheck_growth = Unbound

LoadIdle ==
    /\ load_pc = "idle"
    /\ max_attempts = DefaultLoadMoreMaxAttempts
    /\ iterations = 0
    /\ load_more_attempts = 0
    /\ content_changed = TRUE
    /\ content_growth = Unbound
    /\ growth_pending = 0
    /\ loop_iters = 0
    /\ scroll_passes = 0
    /\ scroll_max = 0
    /\ final_passes = 0
    /\ recheck_growth = Unbound

\* A faulty test: growth of exactly the threshold counts as significant.
BadSignificant(g) == g >= GrowthThreshold

\* "elif content_growth > 500": the content changed significantly
Significant(g) == g > GrowthThreshold

\* The try block of one iteration. clicked: _click_load_more_button returned
\* True; r1, r2: the growth seen by the two reads of page_source, or "raise";
\* sc2: the behaviour of the re-check scroll pass.
\* Returns the locals after the block (and after the except clause).
TryBlock(clicked, r1, sc2, r2) ==
    LET att == IF clicked THEN load_more_attempts + 1 ELSE load_more_attempts
        raised(cg, pend, pass) ==
            [att |-> att, cg |-> cg, pend |-> pend, changed |-> content_changed,
             iters |-> iterations + 2, pass |-> pass, re |-> Unbound]
        rechecked(cg, pend, ch, pass, re) ==
            [att |-> att, cg |-> cg, pend |-> pend, changed |-> ch,
             iters |-> iterations + 1, pass |-> pass, re |-> Bound(re)]
        kept(cg, pend, ch, pass) ==
            [att |-> att, cg |-> cg, pend |-> pend, changed |-> ch,
             iters |-> iterations + 1, pass |-> pass, re |-> Unbound]
    IN
    IF r1.raise THEN raised(content_growth, growth_pending, << >>)
    ELSE LET g == growth_pending + r1.g IN
         IF clicked /\ g < GrowthThreshold
         THEN IF sc2.raise THEN raised(Bound(g), g, <<sc2>>)
              ELSE IF r2.raise THEN raised(Bound(g), g, <<sc2>>)
              ELSE IF g + r2.g < GrowthThreshold
                   THEN rechecked(Bound(g), g + r2.g, FALSE, <<sc2>>, g + r2.g)
                   ELSE rechecked(Bound(g), 0, TRUE, <<sc2>>, g + r2.g)
         ELSE IF Significant(g) THEN kept(Bound(g), 0, TRUE, << >>)
         ELSE IF ~clicked THEN kept(Bound(g), g, FALSE, << >>)
         ELSE kept(Bound(g), g, content_changed, << >>)

\* the re-check of the try block runs: a click, and growth below the threshold
Recheck(clicked, r1) ==
    clicked /\ ~r1.raise /\ growth_pending + r1.g < GrowthThreshold


\* One execution of the while body: the scroll pass, the try block and the
\* safety check that follows it.
LoadIteration ==
    /\ load_pc = "loop"
    /\ LoopCond(content_changed, load_more_attempts, max_attempts, iterations)
    /\ loop_iters' = loop_iters + 1
    /\ UNCHANGED <<max_attempts, final_passes>>
    /\ \E sc1 \in ScrollBehaviours :
         IF sc1.raise
         THEN /\ load_pc' = "raised"
              /\ iterations' = iterations + 1
              /\ scroll_passes' = scroll_passes + 1
              /\ recheck_growth' = Unbound
              /\ UNCHANGED <<load_more_attempts, content_changed, content_growth,
                             growth_pending, scroll_max>>
         ELSE \E clicked \in BOOLEAN, r1 \in PageReads :
              \E sc2 \in IF Recheck(clicked, r1) THEN ScrollBehaviours ELSE {[raise |-> FALSE, growing |-> 0]},
                 r2 \in IF Recheck(clicked, r1) THEN PageReads ELSE {[raise |-> FALSE, g |-> 0]} :
              LET t == TryBlock(clicked, r1, sc2, r2) IN
              /\ iterations' = t.iters
              /\ load_more_attempts' = t.att
              /\ content_changed' = t.changed
              /\ content_growth' = t.cg
              /\ growth_pending' = t.pend
              /\ recheck_growth' = t.re
              /\ scroll_passes' = scroll_passes + 1 + Len(t.pass)
              /\ scroll_max' = Max(Max(scroll_max, ScrollToLoadAll(sc1)),
                                   IF t.pass = << >> THEN 0 ELSE ScrollToLoadAll(t.pass[1]))
              /\ load_pc' = IF t.iters > 2
                            THEN IF t.cg = Unbound THEN "raised"
                                 ELSE IF t.cg[1] < MinimalGrowth THEN "exit" ELSE "loop"
                            ELSE "loop"

\* After the loop: the final scroll pass, then return.
LoadFinish ==
    /\ \/ load_pc = "exit"
       \/ /\ load_pc = "loop"
          /\ ~LoopCond(content_changed, load_more_attempts, max_attempts, iterations)
    /\ \E sc \in ScrollBehaviours :
         /\ load_pc' = IF sc.raise THEN "raised" ELSE "done"
         /\ scroll_max' = Max(scroll_max, ScrollToLoadAll(sc))
    /\ scroll_passes' = scroll_passes + 1
    /\ final_passes' = final_passes + 1
    /\ UNCHANGED <<max_attempts, iterations, load_more_attempts, content_changed,
                   content_growth, growth_pending, loop_iters, recheck_growth>>

LoadNext == LoadIteration \/ LoadFinish

(***************************************************************************)
(* CouponClipper._is_rate_limited and _handle_rate_limit                   *)
(***************************************************************************)
rate_limit_threshold == 3
max_backoff_time == 30
InitialBackoff == 1
\* rate_limit_backoff_factor = 1.5 = BackoffFactorNum / BackoffFactorDen
BackoffFactorNum == 3
BackoffFactorDen == 2

\* backoff_time is a float whose values are k / 2^9 for integers k: the model
\* keeps k. Nine multiplications by 1.5 pass the cap of 30.
BackoffScale == 2^9

MinOf(a, b) == IF a <= b THEN a ELSE b

\* What one check finds on the page: "indicator" (one of the website's
\* rate_limit_indicators), "phrase" (one of the generic rate_limit_phrases and
\* no indicator), "clean", or "raise" (the driver raises during the check).
PageKinds == {"indicator", "phrase", "clean", "raise"}

\* the page shows a rate-limit indication
Indication(page) == page \in {"indicator", "phrase"}

\* _is_rate_limited(website_config, settings) on a page of kind `page`:
\* the returned value and the new rate_limit_count.
IsRateLimited(st, count, page) ==
    IF ~st.enable_rate_limit_detection THEN [detected |-> FALSE, count |-> count]
    ELSE IF page = "raise" THEN [detected |-> FALSE, count |-> count]
    ELSE IF page = "indicator" THEN [detected |-> TRUE, count |-> count]
    ELSE IF ~st.main_content_only THEN [detected |-> FALSE, count |-> count]
    ELSE IF page = "phrase"
         THEN [detected |-> count + 1 >= rate_limit_threshold, count |-> count + 1]
         ELSE [detected |-> FALSE, count |-> 0]

\* wait_time = min(max_backoff, self.backoff_time)
WaitTime(backoff) == MinOf(max_backoff_time * BackoffScale, backoff)

\* int(wait_time): the countdown loop sleeps one second per iteration of
\* range(int(wait_time), 0, -1)
SecondsSlept(backoff) == WaitTime(backoff) \div BackoffScale

\* self.backoff_time = min(max_backoff, self.backoff_time * backoff_factor)
NextBackoff(backoff) ==
    MinOf(max_backoff_time * BackoffScale,
          (backoff * BackoffFactorNum) \div BackoffFactorDen)

NoCheck == [detected |-> FALSE, page |-> "none", count_before |-> 0]
NoWait == [before |-> 0, announced |-> 0, slept |-> 0, previous |-> 0]

DefaultRateSettings == [enable_rate_limit_detection |-> TRUE, main_content_only |-> TRUE]

\* the tracking variables as __init__ sets them and clip_coupons resets them
RateReset ==
    /\ rate_limit_count = 0
    /\ backoff_time = InitialBackoff * BackoffScale
    /\ last_check = NoCheck
    /\ consec_seen = 0
    /\ last_wait = NoWait
    /\ rate_calls = 0

RateIdle == RateReset /\ rate_settings = DefaultRateSettings

\* a run starts with some value of the two settings
RateStart ==
    /\ RateReset
    /\ rate_settings \in [enable_rate_limit_detection : BOOLEAN, main_content_only : BOOLEAN]

\* "Reset tracking variables" at the top of clip_coupons: a new run
RateRunStart ==
    /\ rate_calls > 0
    /\ rate_limit_count' = 0
    /\ backoff_time' = InitialBackoff * BackoffScale
    /\ last_check' = NoCheck
    /\ consec_seen' = 0
    /\ last_wait' = NoWait
    /\ rate_calls' = 0
    /\ UNCHANGED rate_settings

\* one call of _is_rate_limited after a click
RateCheck ==
    /\ rate_calls < MaxRateCalls
    /\ \E page \in PageKinds :
         LET r == IsRateLimited(rate_settings, rate_limit_count, page) IN
         /\ rate_limit_count' = r.count
         /\ last_check' = [detected |-> r.detected, page |-> page,
                           count_before |-> rate_limit_count]
         /\ consec_seen' = IF Indication(page) THEN consec_seen + 1 ELSE 0
    /\ rate_calls' = rate_calls + 1
    /\ UNCHANGED <<backoff_time, rate_settings, last_wait>>

\* one call of _handle_rate_limit, made when the check returned True
RateHandle ==
    /\ rate_calls < MaxRateCalls
    /\ last_check.detected
    /\ last_wait' = [before |-> backoff_time, announced |-> WaitTime(backoff_time),
                     slept |-> SecondsSlept(backoff_time),
                     previous |-> last_wait.slept]
    /\ backoff_time' = NextBackoff(backoff_time)
    /\ last_check' = NoCheck
    /\ rate_calls' = rate_calls + 1
    /\ UNCHANGED <<rate_limit_count, rate_settings, consec_seen>>

RateNext == RateRunStart \/ RateCheck \/ RateHandle

(***************************************************************************)
(* Click helpers used by the clipping loop                                 *)
(***************************************************************************)
max_retries == 5

\* What the browser does to one attempt of _click_button.
AttemptOutcomes ==
    [scroll : BOOLEAN, native : {"ok", "intercepted", "raise"}, js : BOOLEAN,
     chain : BOOLEAN]

\* A faulty attempt: the return after the JavaScript click is missing.
BadClickAttempt(a) ==
    IF a.scroll /\ a.native = "ok" THEN "native"
    ELSE IF a.chain THEN "action_chain"
    ELSE "none"

\* One attempt of _click_button: the technique that clicked, or "none".
ClickAttempt(a) ==
    IF a.scroll /\ a.native = "ok" THEN "native"
    ELSE IF a.scroll /\ a.native = "intercepted" /\ a.js THEN "js"
    ELSE IF a.chain THEN "action_chain"
    ELSE "none"

\* _click_button(button): attempts is a sequence of max_retries attempt
\* outcomes; the call returns True at the first attempt that clicks.
RECURSIVE ClickButtonFrom(_, _)
ClickButtonFrom(attempts, k) ==
    IF k > Len(attempts) THEN [result |-> FALSE, made |-> Len(attempts), clicked |-> "none"]
    ELSE IF ClickAttempt(attempts[k]) # "none"
         THEN [result |-> TRUE, made |-> k, clicked |-> ClickAttempt(attempts[k])]
         ELSE ClickButtonFrom(attempts, k + 1)

ClickButton(attempts) == ClickButtonFrom(attempts, 1)

\* The click techniques one attempt reaches, in order: scrollIntoView raising
\* skips the native click; the JavaScript click is in the handler of
\* ElementClickInterceptedException; the action chain follows every failure.
AttemptTried(a) ==
    IF ~a.scroll THEN <<"action_chain">>
    ELSE IF a.native = "ok" THEN <<"native">>
    ELSE IF a.native = "intercepted"
         THEN IF a.js THEN <<"native", "js">> ELSE <<"native", "js", "action_chain">>
         ELSE <<"native", "action_chain">>

\* technique t does not raise in an attempt with outcome a
TechniqueWorks(a, t) ==
    CASE t = "native" -> a.native = "ok"
      [] t = "js" -> a.js
      [] t = "action_chain" -> a.chain

\* the value of a call that has not returned yet
Pending == "pending"

\* entry of _click_button: no attempt made yet
ClickButtonStart ==
    /\ click_in = << >>
    /\ click_out = [result |-> Pending, attempted |-> << >>, clicked |-> "none"]

\* one iteration of "for attempt in range(max_retries)"
ClickButtonAttempt ==
    /\ click_out.result = Pending
    /\ Len(click_in) < max_retries
    /\ \E a \in AttemptOutcomes :
         /\ click_in' = Append(click_in, a)
         /\ click_out' =
              IF ClickAttempt(a) # "none"
              THEN [result |-> "True",
                    attempted |-> Append(click_out.attempted, AttemptTried(a)),
                    clicked |-> ClickAttempt(a)]
              ELSE [click_out EXCEPT !.attempted = Append(@, AttemptTried(a))]

\* the loop is exhausted: "return False"
ClickButtonGiveUp ==
    /\ click_out.result = Pending
    /\ Len(click_in) = max_retries
    /\ click_out' = [click_out EXCEPT !.result = "False"]
    /\ UNCHANGED click_in

ClickButtonNext == ClickButtonAttempt \/ ClickButtonGiveUp

\* What the browser does to one call of HumanEmulator.human_move_and_click:
\* prep (scrolling to the element and reading its rectangle), the action-chain
\* click, and the two fall-back element.click() calls.
HumanOutcomes == [prep : BOOLEAN, chain : BOOLEAN, fb1 : BOOLEAN, fb2 : BOOLEAN]

\* human_move_and_click(element): True iff one of its clicks went through.
HumanMoveAndClick(o) ==
    IF ~o.prep THEN o.fb2
    ELSE IF o.chain THEN TRUE
    ELSE IF o.fb1 THEN TRUE
    ELSE o.fb2

\* Browser behaviours the clipping loop is run against.

LoopEnhancedOutcomes ==
    {o \in ClickOutcomes :
        /\ o.scroll = "ok" /\ o.enabled = "true" /\ o.size = "ok"
        /\ o.displayed \in {"true", "false"}
        /\ \A k \in 3..NumStrategies : o.works[k] = o.works[2]}

LoopAttemptOutcomes ==
    {a \in AttemptOutcomes : a.scroll /\ a.chain = a.js /\ a.native # "raise"}


LoopHumanOutcomes == {o \in HumanOutcomes : o.prep /\ o.fb1 = o.fb2}

\* The standard clicking of the loop for this website:
\* _enhanced_click_button for weis and harris_teeter, _click_button otherwise.
\* works: the driver is connected.
StandardClickResults(key, works) ==
    IF key \in {"weis", "harris_teeter"}
    THEN {EnhancedClickButton(o).result :
            o \in IF works THEN LoopEnhancedOutcomes
                  ELSE {[scroll |-> "raise", displayed |-> "raise",
                         enabled |-> "raise", size |-> "raise",
                         works |-> [k \in 1..NumStrategies |-> FALSE]]}}
    ELSE {ClickButton(([k \in 1..max_retries |-> a])).result :
            a \in IF works THEN LoopAttemptOutcomes
                  ELSE {[scroll |-> FALSE, native |-> "raise", js |-> FALSE,
                         chain |-> FALSE]}}

HumanClickResults(works) ==
    {HumanMoveAndClick(o) :
        o \in IF works THEN LoopHumanOutcomes
              ELSE {[prep |-> FALSE, chain |-> FALSE, fb1 |-> FALSE, fb2 |-> FALSE]}}

(***************************************************************************)
(* CouponClipper: driver connection, SIGINT handler, clip_coupons          *)
(***************************************************************************)
max_recovery_attempts == 3
connection_check_interval == 5

\* keys main() calls clip_coupons with: it validates the selected index
\* against config["websites"]
Keys == Websites

\* save_session during a run of the program: the session file is writable
\* (a failing write is exercised by SessRecord and SessSetLast)
SaveOutcomes == {TRUE}

Running == << >>
NoRet == << >>
NoCaptcha == [kind |-> "none", confirmed |-> FALSE, clicks_since |-> 0,
              refound_since |-> FALSE, index |-> 0]

DefaultSettings ==
    [human_emulation |-> TRUE, enable_rapid_mode |-> FALSE,
     site_rapid_compatible |-> FALSE, manual_rate_limit_confirmation |-> FALSE]

\* the only coupon id the loop's buttons carry in the model
LoopCouponId == "a"

\* check_driver_connection(): o is what creating and navigating a new driver
\* does, "new_ok", "chrome_fails" or "get_fails".
ReconnectOutcomes == {"new_ok", "chrome_fails", "get_fails"}

\* A faulty guard: "<=" instead of "<".
BadCheckDriverConnection(drv, attempts, o) ==
    IF drv = "none"
    THEN [ok |-> FALSE, driver |-> drv, attempts |-> attempts, created |-> FALSE,
          attempted |-> FALSE]
    ELSE IF drv = "ok"
    THEN [ok |-> TRUE, driver |-> drv, attempts |-> attempts, created |-> FALSE,
          attempted |-> FALSE]
    ELSE IF attempts <= max_recovery_attempts
    THEN IF o = "chrome_fails"
         THEN [ok |-> FALSE, driver |-> "none", attempts |-> attempts + 1,
               created |-> FALSE, attempted |-> TRUE]
         ELSE [ok |-> (o = "new_ok"), driver |-> "ok", attempts |-> attempts + 1,
               created |-> TRUE, attempted |-> TRUE]
    ELSE [ok |-> FALSE, driver |-> drv, attempts |-> attempts, created |-> FALSE,
          attempted |-> FALSE]

\* ok: the returned value; driver, attempts: self.driver and
\* self.connection_attempt_count after the call; attempted: the reconnection
\* branch was entered; created: webdriver.Chrome() returned a new driver.
CheckDriverConnection(drv, attempts, o) ==
    IF drv = "none"
    THEN [ok |-> FALSE, driver |-> drv, attempts |-> attempts, created |-> FALSE,
          attempted |-> FALSE]
    ELSE IF drv = "ok"
    THEN [ok |-> TRUE, driver |-> drv, attempts |-> attempts, created |-> FALSE,
          attempted |-> FALSE]
    ELSE IF attempts < max_recovery_attempts
    THEN IF o = "chrome_fails"
         THEN [ok |-> FALSE, driver |-> "none", attempts |-> attempts + 1,
               created |-> FALSE, attempted |-> TRUE]
         ELSE [ok |-> (o = "new_ok"), driver |-> "ok", attempts |-> attempts + 1,
               created |-> TRUE, attempted |-> TRUE]
    ELSE [ok |-> FALSE, driver |-> drv, attempts |-> attempts, created |-> FALSE,
          attempted |-> FALSE]

NoCalls == [calls |-> << >>, choice |-> "none"]

\* _default_config: random_delay_min/max and rapid_mode_min/max_delay, and
\* the floor of a custom minimum, in milliseconds
DefaultDelayMin == 500
DefaultDelayMax == 1500
RapidDelayMin == 50
RapidDelayMax == 200
CustomDelayFloor == 100

\* site_specific_settings of a website in _default_config
SiteSpecificSettings(key) ==
    IF key = "harris_teeter"
    THEN [rapid_mode_compatible |-> TRUE, min_delay_override |-> Bound(100),
          max_delay_override |-> Bound(300)]
    ELSE [rapid_mode_compatible |-> FALSE, min_delay_override |-> Unbound,
          max_delay_override |-> Unbound]

\* the delay settings of a new CouponClipper; no run has started
NoDelays ==
    [stage |-> "idle", key |-> "None", site_min_delay |-> Unbound,
     site_max_delay |-> Unbound, site_rapid_compatible |-> FALSE,
     enable_rapid_mode |-> FALSE, random_delay_min |-> DefaultDelayMin,
     random_delay_max |-> DefaultDelayMax, choice |-> "none", valid |-> FALSE,
     custom_min |-> 0, custom_max |-> 0, min_delay |-> 0, max_delay |-> 0]

\* driver.quit(): ends a live session; raises (and changes nothing) otherwise
DriverAfterQuit(drv) == IF drv = "ok" THEN "quit" ELSE drv

\* The body of the handler up to sys.exit(0).
RunHandler ==
    /\ shutdown_requested' = TRUE
    /\ \E ok \in SaveOutcomes : disk' = SaveSession(total_clipped, by_website, last_website, ok)
    /\ driver' = DriverAfterQuit(driver)
    /\ handler_log' = (IF driver # "none" THEN <<"flag", "save", "quit", "exit">> ELSE <<"flag", "save", "exit">>)
    /\ sigints' = sigints + 1

\* the process is in the main clipping loop
InClippingLoop ==
    pc \in {"loop_top", "classify", "click", "record", "rate", "captcha",
            "captcha_wait", "stale", "fallback", "record_fb"}

\* Places of the loop where a SystemExit raised by the handler is caught by a
\* bare "except:" and the interrupted code goes on: the parent lookup of
\* _is_already_clipped (called when rapid mode's map does not cover the
\* button) and the parent/container lookups of _extract_coupon_id.
RapidActive(st) == st.enable_rapid_mode /\ st.site_rapid_compatible

MapCovers == RapidActive(settings) /\ i + 1 \in DOMAIN already_clipped_map


\* Construction: CouponClipper.__init__ (which installs the handler) with the
\* default configuration and no session file.
ProcInit ==
    /\ pc = "main_setup"
    /\ website_key = "None"
    /\ driver = "none"
    /\ shutdown_requested = FALSE
    /\ exit_status = Running
    /\ ret = NoRet
    /\ ret_reason = "none"
    /\ settings = DefaultSettings
    /\ i = 0
    /\ nbuttons = 0
    /\ buttons_updated = FALSE
    /\ buttons_live = FALSE
    /\ clipped_count = 0
    /\ already_clipped_count = 0
    /\ connection_check_counter = 0
    /\ already_clipped_map = << >>
    /\ already_clipped = FALSE
    /\ consecutive_success = 0
    /\ rate_limit_hit = FALSE
    /\ connection_attempt_count = 0
    /\ clicks = 0
    /\ refreshes = 0
    /\ sigints = 0
    /\ handler_log = << >>
    /\ captcha = NoCaptcha
    /\ disturbances = 0
    /\ conn_log = NoCalls
    /\ reconnects = 0
    /\ delays = NoDelays

\* The process not started: the state of the specifications that exercise
\* one component on its own.
ProcIdle ==
    /\ pc = "idle"
    /\ website_key = "None"
    /\ driver = "none"
    /\ shutdown_requested = FALSE
    /\ exit_status = Running
    /\ ret = NoRet
    /\ ret_reason = "none"
    /\ settings = DefaultSettings
    /\ i = 0
    /\ nbuttons = 0
    /\ buttons_updated = FALSE
    /\ buttons_live = FALSE
    /\ clipped_count = 0
    /\ already_clipped_count = 0
    /\ connection_check_counter = 0
    /\ already_clipped_map = << >>
    /\ already_clipped = FALSE
    /\ consecutive_success = 0
    /\ rate_limit_hit = FALSE
    /\ connection_attempt_count = 0
    /\ clicks = 0
    /\ refreshes = 0
    /\ sigints = 0
    /\ handler_log = << >>
    /\ captcha = NoCaptcha
    /\ disturbances = 0
    /\ conn_log = NoCalls
    /\ reconnects = 0
    /\ delays = NoDelays

sessNoDisk == <<total_clipped, by_website, clipped_coupons, last_website, record_calls>>

Budget == disturbances < MaxDisturbances

\* the generic "except Exception" of the loop body: reset the streak, skip the button
LoopException ==
    /\ consecutive_success' = 0
    /\ i' = i + 1
    /\ pc' = "loop_top"

\* The locals of clip_coupons (and what is remembered about its CAPTCHA) end
\* with the call.
DropLocals ==
    /\ i' = 0
    /\ nbuttons' = 0
    /\ buttons_updated' = FALSE
    /\ buttons_live' = FALSE
    /\ clipped_count' = 0
    /\ already_clipped_count' = 0
    /\ already_clipped_map' = << >>
    /\ captcha' = NoCaptcha

\* clip_coupons returns value v to main()'s selection loop
Return(v, why) ==
    /\ ret' = <<v>>
    /\ ret_reason' = why
    /\ pc' = "menu"

\* main(): clipper.setup_driver(attach). A failure ends the program through
\* main's except/finally.
MainSetupDriver ==
    /\ UNCHANGED auxVars
    /\ pc = "main_setup"
    /\ \E ok \in BOOLEAN :
         IF ok
         THEN /\ driver' = "ok"
              /\ connection_attempt_count' = 0
              /\ pc' = "menu"
              /\ UNCHANGED exit_status
         ELSE /\ pc' = "exited"
              /\ exit_status' = <<0>>
              /\ UNCHANGED <<driver, connection_attempt_count>>
    /\ UNCHANGED <<sessVars, clickVars, loadVars, rateVars, histVars>>
    /\ UNCHANGED <<website_key, shutdown_requested, ret, ret_reason, settings>>
    /\ UNCHANGED <<i, nbuttons, buttons_updated, buttons_live, clipped_count,
                   already_clipped_count, connection_check_counter, already_clipped_map,
                   already_clipped, consecutive_success, rate_limit_hit>>

\* clip_coupons(key), up to the driver set-up: the key check, the session's
\* last website, the reset of the tracking variables, the site settings.
ClipEntry ==
    /\ UNCHANGED auxVars
    /\ pc = "menu"
    /\ ret = NoRet
    /\ \E key \in Keys :
              /\ website_key' = key
              /\ \E ok \in SaveOutcomes : SetLastWebsite(key, ok)
              /\ backoff_time' = InitialBackoff * BackoffScale
              /\ consecutive_success' = 0
              /\ rate_limit_hit' = FALSE
              /\ rate_limit_count' = 0
              /\ connection_attempt_count' = 0
              /\ \E choice \in IF key = "weis" THEN {"1", "2", "3"} ELSE {"none"} :
                   /\ settings' =
                        [settings EXCEPT
                           !.site_rapid_compatible = (key = "harris_teeter"),
                           !.manual_rate_limit_confirmation =
                               IF choice = "3" THEN TRUE
                               ELSE IF choice = "1" THEN FALSE ELSE @]
                   /\ rate_settings' =
                        [rate_settings EXCEPT
                           !.enable_rate_limit_detection =
                               IF choice = "2" THEN FALSE
                               ELSE IF choice = "1" THEN TRUE ELSE @]
              /\ pc' = "entry_driver"
              /\ UNCHANGED <<ret, ret_reason, last_check, consec_seen, last_wait, rate_calls>>
    /\ UNCHANGED <<clickVars, loadVars, histVars, driver, shutdown_requested, exit_status>>
    /\ UNCHANGED <<i, nbuttons, buttons_updated, buttons_live, clipped_count,
                   already_clipped_count, connection_check_counter, already_clipped_map,
                   already_clipped>>

\* "Set up the driver if not already done": setup_driver() when there is no
\* driver or check_driver_connection() fails. A setup_driver() that raises
\* leaves clip_coupons by the exception (it is outside the try).
ClipEntryDriver ==
    /\ UNCHANGED auxVars
    /\ pc = "entry_driver"
    /\ \E o \in ReconnectOutcomes, setup_ok \in BOOLEAN :
         LET c == CheckDriverConnection(driver, connection_attempt_count, o) IN
         IF driver # "none" /\ c.ok
         THEN /\ driver' = c.driver
              /\ connection_attempt_count' = c.attempts
              /\ pc' = "navigate"
              /\ UNCHANGED ret_reason
         ELSE IF setup_ok
         THEN /\ driver' = "ok"
              /\ connection_attempt_count' = 0
              /\ pc' = "navigate"
              /\ UNCHANGED ret_reason
         ELSE /\ driver' = c.driver
              /\ connection_attempt_count' = c.attempts
              /\ pc' = "menu"
              /\ ret_reason' = "raised"
    /\ UNCHANGED <<sessVars, clickVars, loadVars, rateVars, histVars>>
    /\ UNCHANGED <<website_key, shutdown_requested, exit_status, ret, settings>>
    /\ UNCHANGED <<i, nbuttons, buttons_updated, buttons_live, clipped_count,
                   already_clipped_count, connection_check_counter, already_clipped_map,
                   already_clipped, consecutive_success, rate_limit_hit>>

\* The outer "except Exception" of clip_coupons: the user is asked whether to
\* continue, the session is saved, and choice != 'n' is returned.
ErrorPath ==
    /\ \E continue \in BOOLEAN : Return(continue, "error")
    /\ \E ok \in SaveOutcomes : disk' = SaveSession(total_clipped, by_website, last_website, ok)
    /\ UNCHANGED sessNoDisk

\* driver.get(url), the initial CAPTCHA and login checks, _load_all_content.
ClipNavigateAndLoad ==
    /\ UNCHANGED auxVars
    /\ pc = "navigate"
    /\ \E works \in IF driver = "ok" THEN BOOLEAN ELSE {FALSE} :
         IF works
         THEN /\ pc' = "find"
              /\ UNCHANGED <<ret, ret_reason, sessVars>>
         ELSE ErrorPath
    /\ UNCHANGED <<clickVars, loadVars, rateVars, histVars, loopVars>>
    /\ UNCHANGED <<website_key, driver, shutdown_requested, exit_status, settings>>

\* The answers to _ask_clip_speed_preference: a preset (options 1-4, and 5
\* declined), rapid mode (option 5 confirmed, offered on rapid-compatible
\* sites), custom timing with or without human emulation (option 6).
SpeedChoices(st) ==
    {"preset", "custom_human", "custom_plain"}
        \cup IF st.site_rapid_compatible THEN {"rapid"} ELSE {}

AskClipSpeedPreference(st, speed) ==
    [st EXCEPT !.enable_rapid_mode = (speed = "rapid"),
               !.human_emulation = speed \in {"preset", "custom_human"}]


\* Finding the buttons (asking the user when none is found), the speed
\* prompt, rapid mode's pre-check and the initialisation of the loop's locals.
ClipFindButtons ==
    /\ UNCHANGED auxVars
    /\ pc = "find"
    /\ \E found \in IF driver = "ok" THEN 0..MaxButtons ELSE {0} :
         IF found = 0
         THEN /\ Return(TRUE, "no_buttons")
              /\ UNCHANGED <<sessVars, settings, loopVars>>
         ELSE /\ \E speed \in SpeedChoices(settings) :
                   /\ settings' = AskClipSpeedPreference(settings, speed)
                   /\ \E m \in IF speed = "rapid" THEN [1..found -> BOOLEAN] ELSE {<< >>} :
                        /\ already_clipped_map' = m
                        /\ already_clipped_count' = (Cardinality({k \in DOMAIN m : m[k]}))
              /\ \E ok \in SaveOutcomes :
                   disk' = SaveSession(total_clipped, by_website, last_website, ok)
              /\ nbuttons' = found
              /\ buttons_live' = TRUE
              /\ i' = 0
              /\ clipped_count' = 0
              /\ buttons_updated' = FALSE
              /\ connection_check_counter' = 0
              /\ pc' = "loop_top"
              /\ UNCHANGED <<ret, ret_reason, sessNoDisk, already_clipped,
                             consecutive_success, rate_limit_hit, connection_attempt_count>>
    /\ UNCHANGED <<clickVars, loadVars, rateVars, histVars>>
    /\ UNCHANGED <<website_key, driver, shutdown_requested, exit_status>>

\* The periodic connection check of the loop: up to three calls of
\* check_driver_connection, with the user's answer to the "couldn't
\* reconnect" prompt between the second and the third.
ReconnectChoices == {"1", "2", "3"}

ConnCascade(drv, att, o1, o2, o3, choice) ==
    LET c1 == CheckDriverConnection(drv, att, o1)
        c2 == CheckDriverConnection(c1.driver, c1.attempts, o2)
        c3 == CheckDriverConnection(c2.driver, c2.attempts, o3)
    IN IF c1.ok THEN [res |-> "fine", driver |-> c1.driver, attempts |-> c1.attempts]
       ELSE IF c2.ok THEN [res |-> "refind", driver |-> c2.driver, attempts |-> c2.attempts]
       ELSE IF choice = "2" THEN [res |-> "skip", driver |-> c2.driver, attempts |-> c2.attempts]
       ELSE IF choice = "3" THEN [res |-> "exit", driver |-> c2.driver, attempts |-> c2.attempts]
       ELSE IF c3.ok THEN [res |-> "refind", driver |-> c3.driver, attempts |-> c3.attempts]
       ELSE [res |-> "failed", driver |-> c3.driver, attempts |-> c3.attempts]

\* the history of the CAPTCHA being handled, across a re-find of the buttons
CaptchaRefound == IF captcha.confirmed THEN [captcha EXCEPT !.refound_since = TRUE] ELSE captcha

\* the history of the CAPTCHA being handled, across a click on a coupon button
CaptchaClicked ==
    IF captcha.confirmed
    THEN IF captcha.refound_since THEN NoCaptcha
         ELSE [captcha EXCEPT !.clicks_since = @ + 1]
    ELSE captcha

\* "if buttons_updated:" the list is re-found; a non-empty result replaces
\* the list and restarts the index. Otherwise on to the classification.
\* live: whether the current list belongs to the driver's session.
RefreshButtons(live) ==
    IF buttons_updated
    THEN /\ buttons_updated' = FALSE
         /\ captcha' = CaptchaRefound
         /\ \E n \in IF driver' = "ok" THEN 0..MaxButtons ELSE {0} :
              IF n > 0
              THEN /\ nbuttons' = n
                   /\ buttons_live' = TRUE
                   /\ i' = 0
                   /\ already_clipped_count' = 0
                   /\ pc' = "loop_top"
              ELSE /\ pc' = "classify"
                   /\ buttons_live' = live
                   /\ UNCHANGED <<nbuttons, i, already_clipped_count>>
         /\ UNCHANGED clipped_count
    ELSE /\ pc' = "classify"
         /\ buttons_live' = live
         /\ UNCHANGED <<buttons_updated, captcha, nbuttons, i,
                        already_clipped_count, clipped_count>>

\* The head of one pass of the main loop: the while condition, the shutdown
\* check, the periodic connection check, the refresh of the button list and
\* "already_clipped = False"; and, when the loop ends, the final save and
\* "return True".
LoopHead ==
    /\ UNCHANGED auxVars
    /\ pc = "loop_top"
    /\ IF ~(i < nbuttons) \/ shutdown_requested
       THEN /\ Return(TRUE, IF i < nbuttons THEN "shutdown" ELSE "completed")
            /\ \E ok \in SaveOutcomes :
                 disk' = SaveSession(total_clipped, by_website, last_website, ok)
            /\ DropLocals
            /\ connection_check_counter' = 0
            /\ UNCHANGED <<driver, exit_status, connection_attempt_count>>
       ELSE IF connection_check_counter + 1 >= connection_check_interval
       THEN /\ connection_check_counter' = 0
            /\ \E o1 \in ReconnectOutcomes, o2 \in ReconnectOutcomes,
                  o3 \in ReconnectOutcomes, choice \in ReconnectChoices :
                 LET c == ConnCascade(driver, connection_attempt_count, o1, o2, o3, choice) IN
                 /\ connection_attempt_count' = c.attempts
                 /\ CASE c.res = "fine" ->
                           /\ driver' = c.driver
                           /\ RefreshButtons(buttons_live /\ driver = "ok")
                           /\ UNCHANGED <<ret, ret_reason, exit_status, disk,
                                          already_clipped_map>>
                      [] c.res = "refind" ->
                           /\ driver' = c.driver
                           /\ \E n \in 0..MaxButtons :
                                IF n = 0
                                THEN /\ Return(TRUE, "no_buttons_after_reconnect")
                                     /\ DropLocals
                                ELSE /\ captcha' = CaptchaRefound
                                     /\ UNCHANGED already_clipped_map
                                     /\ nbuttons' = n
                                     /\ buttons_live' = TRUE
                                     /\ i' = 0
                                     /\ already_clipped_count' = 0
                                     /\ clipped_count' = 0
                                     /\ buttons_updated' = FALSE
                                     /\ pc' = "loop_top"
                                     /\ UNCHANGED <<ret, ret_reason>>
                           /\ UNCHANGED <<exit_status, disk>>
                      [] c.res = "skip" ->
                           /\ driver' = c.driver
                           /\ Return(TRUE, "skip")
                           /\ DropLocals
                           /\ UNCHANGED <<exit_status, disk>>
                      [] c.res = "failed" ->
                           /\ driver' = c.driver
                           /\ Return(TRUE, "reconnect_failed")
                           /\ DropLocals
                           /\ UNCHANGED <<exit_status, disk>>
                      [] c.res = "exit" ->
                           /\ driver' = DriverAfterQuit(c.driver)
                           /\ \E ok \in SaveOutcomes :
                                disk' = IF c.driver = "none" THEN disk
                                        ELSE SaveSession(total_clipped, by_website,
                                                         last_website, ok)
                           /\ pc' = "exited"
                           /\ exit_status' = <<0>>
                           /\ DropLocals
                           /\ UNCHANGED <<ret, ret_reason>>
       ELSE /\ connection_check_counter' = connection_check_counter + 1
            /\ driver' = driver
            /\ RefreshButtons(buttons_live)
            /\ UNCHANGED <<ret, ret_reason, exit_status, disk, connection_attempt_count,
                           already_clipped_map>>
    /\ UNCHANGED <<sessNoDisk, clickVars, loadVars, rateVars>>
    /\ already_clipped' = FALSE
    /\ UNCHANGED <<website_key, shutdown_requested, settings, consecutive_success,
                   rate_limit_hit>>
    /\ clicks' = 0
    /\ refreshes' = 0
    /\ UNCHANGED <<sigints, handler_log, disturbances>>

\* the buttons of the list can be operated: the driver is connected and the
\* list was found in its session
ButtonsWork == driver = "ok" /\ buttons_live

\* A faulty classification step: the "continue" of the skip is missing.
BadAfterClassify(clipped) == "click"

\* The decision of the classification step: skip an already clipped button.
AfterClassify(clipped) == IF clipped THEN "loop_top" ELSE "click"

\* "Check if button is already clipped before attempting": rapid mode's map
\* when it covers the index, _is_already_clipped otherwise (which answers
\* False whenever it cannot read the button).
LoopClassify ==
    /\ UNCHANGED auxVars
    /\ pc = "classify"
    /\ \E clipped \in IF MapCovers THEN {already_clipped_map[i + 1]}
                      ELSE IF ButtonsWork THEN BOOLEAN ELSE {FALSE} :
         /\ already_clipped' = clipped
         /\ pc' = AfterClassify(clipped)
         /\ already_clipped_count' = IF clipped THEN already_clipped_count + 1
                                     ELSE already_clipped_count
         /\ i' = IF clipped THEN i + 1 ELSE i
    /\ UNCHANGED <<sessVars, clickVars, loadVars, rateVars, histVars>>
    /\ UNCHANGED <<website_key, driver, shutdown_requested, exit_status, ret, ret_reason,
                   settings>>
    /\ UNCHANGED <<nbuttons, buttons_updated, buttons_live, clipped_count,
                   connection_check_counter, already_clipped_map, consecutive_success,
                   rate_limit_hit, connection_attempt_count>>

\* The delay, the occasional human_page_interaction (which may raise into the
\* loop's generic handler) and the clicking: human_move_and_click when human
\* emulation is on, then the website's standard method when that failed.
LoopClick ==
    /\ UNCHANGED auxVars
    /\ pc = "click"
    /\ \/ /\ settings.human_emulation /\ ~settings.enable_rapid_mode
          /\ LoopException
          /\ UNCHANGED <<clicks, captcha>>
       \/ \E h \in IF settings.human_emulation THEN HumanClickResults(ButtonsWork)
                   ELSE {FALSE},
             s \in StandardClickResults(website_key, ButtonsWork) :
            LET success == h \/ s IN
            /\ clicks' = IF success THEN clicks + 1 ELSE clicks
            /\ captcha' = IF success THEN CaptchaClicked ELSE captcha
            /\ pc' = IF success THEN "record" ELSE "fallback"
            /\ consecutive_success' = IF success THEN consecutive_success ELSE 0
            /\ i' = i
    /\ UNCHANGED <<sessVars, clickVars, loadVars, rateVars>>
    /\ UNCHANGED <<website_key, driver, shutdown_requested, exit_status, ret, ret_reason,
                   settings>>
    /\ UNCHANGED <<nbuttons, buttons_updated, buttons_live, clipped_count,
                   already_clipped_count, connection_check_counter, already_clipped_map,
                   already_clipped, rate_limit_hit, connection_attempt_count>>
    /\ UNCHANGED <<refreshes, sigints, handler_log, disturbances>>

\* "if success:" the counters and the session record.
LoopRecord ==
    /\ UNCHANGED auxVars
    /\ pc = "record"
    /\ clipped_count' = clipped_count + 1
    /\ consecutive_success' = consecutive_success + 1
    /\ \E ok \in SaveOutcomes : RecordClippedCoupon(website_key, LoopCouponId, ok)
    /\ pc' = "rate"
    /\ UNCHANGED <<clickVars, loadVars, rateVars, histVars>>
    /\ UNCHANGED <<website_key, driver, shutdown_requested, exit_status, ret, ret_reason,
                   settings>>
    /\ UNCHANGED <<i, nbuttons, buttons_updated, buttons_live, already_clipped_count,
                   connection_check_counter, already_clipped_map, already_clipped,
                   rate_limit_hit, connection_attempt_count>>

AfterRate == IF settings.enable_rapid_mode THEN "stale" ELSE "captcha"

\* A faulty handler: it reports that the buttons need no re-find.
BadHandleRateLimit(refresh_ok) == IF refresh_ok THEN "False" ELSE "raise"

\* _handle_rate_limit(settings) after its wait: "True" is returned once
\* driver.refresh() has run; a refresh that raises leaves the call by the
\* exception.
HandleRateLimit(refresh_ok) == IF refresh_ok THEN "True" ELSE "raise"

\* The rate-limit check after a successful clip, the optional manual
\* confirmation, and _handle_rate_limit (whose driver.refresh() may raise
\* into the loop's generic handler).
LoopRateCheck ==
    /\ UNCHANGED auxVars
    /\ pc = "rate"
    /\ IF ~settings.enable_rapid_mode /\ rate_settings.enable_rate_limit_detection
       THEN \E page \in IF driver # "ok" THEN {"raise"}
                        ELSE IF Budget THEN PageKinds ELSE {"clean", "raise"},
               confirm \in {"1", "2", "3"}, refresh_ok \in BOOLEAN :
              LET r == IsRateLimited(rate_settings, rate_limit_count, page)
                  asked == r.detected /\ settings.manual_rate_limit_confirmation
                  rate_limited == r.detected /\ (asked => confirm = "1")
              IN
              /\ ~asked => confirm = "1"
              /\ ~rate_limited => refresh_ok
              /\ rate_limit_count' = r.count
              /\ disturbances' = IF Indication(page) THEN disturbances + 1
                                 ELSE disturbances
              /\ rate_settings' =
                   IF asked /\ confirm = "3"
                   THEN [rate_settings EXCEPT !.enable_rate_limit_detection = FALSE]
                   ELSE rate_settings
              /\ IF rate_limited
                 THEN /\ rate_limit_hit' = TRUE
                      /\ last_wait' = [before |-> backoff_time,
                                       announced |-> WaitTime(backoff_time),
                                       slept |-> SecondsSlept(backoff_time),
                                       previous |-> last_wait.slept]
                      /\ backoff_time' = NextBackoff(backoff_time)
                      /\ IF HandleRateLimit(refresh_ok) # "raise"
                         THEN /\ refreshes' = refreshes + 1
                              /\ buttons_updated' = (HandleRateLimit(refresh_ok) = "True")
                              /\ consecutive_success' = 0
                              /\ pc' = "loop_top"
                              /\ i' = i
                         ELSE /\ LoopException
                              /\ UNCHANGED <<refreshes, buttons_updated>>
                 ELSE /\ pc' = AfterRate
                      /\ UNCHANGED <<rate_limit_hit, backoff_time, refreshes, last_wait,
                                     buttons_updated, consecutive_success, i>>
       ELSE /\ pc' = AfterRate
            /\ UNCHANGED <<rate_limit_count, rate_settings, rate_limit_hit, backoff_time,
                           refreshes, buttons_updated, consecutive_success, i,
                           disturbances, last_wait>>
    /\ UNCHANGED <<sessVars, clickVars, loadVars, last_check, consec_seen, rate_calls>>
    /\ UNCHANGED <<website_key, driver, shutdown_requested, exit_status, ret, ret_reason,
                   settings>>
    /\ UNCHANGED <<nbuttons, buttons_live, clipped_count, already_clipped_count,
                   connection_check_counter, already_clipped_map, already_clipped,
                   connection_attempt_count>>
    /\ UNCHANGED <<clicks, sigints, handler_log, captcha>>

\* A faulty check: False is returned after a non-Cloudflare CAPTCHA was solved.
BadCheckForCaptcha(kind) == kind \in {"cloudflare_auto", "cloudflare_user"}

\* _check_for_captcha's answer once the user (where asked) has confirmed
CheckForCaptcha(kind) == kind # "none"

\* _check_for_captcha up to its return, or up to the input() of
\* _user_solve_captcha.
LoopCaptchaCheck ==
    /\ UNCHANGED auxVars
    /\ pc = "captcha"
    /\ \E kind \in IF driver = "ok" /\ Budget THEN {"none", "cloudflare_auto", "cloudflare_user", "other"} ELSE {"none"} :
         /\ disturbances' = IF kind = "none" THEN disturbances ELSE disturbances + 1
         /\ IF (kind \in {"cloudflare_user", "other"})
            THEN /\ pc' = "captcha_wait"
                 /\ captcha' = [kind |-> kind, confirmed |-> FALSE, clicks_since |-> 0,
                                refound_since |-> FALSE, index |-> i]
                 /\ UNCHANGED buttons_updated
            ELSE /\ pc' = IF CheckForCaptcha(kind) THEN "loop_top" ELSE "stale"
                 /\ buttons_updated' = (buttons_updated \/ CheckForCaptcha(kind))
                 /\ UNCHANGED captcha
    /\ UNCHANGED <<sessVars, clickVars, loadVars, rateVars>>
    /\ UNCHANGED <<website_key, driver, shutdown_requested, exit_status, ret, ret_reason,
                   settings>>
    /\ UNCHANGED <<i, nbuttons, buttons_live, clipped_count, already_clipped_count,
                   connection_check_counter, already_clipped_map, already_clipped,
                   consecutive_success, rate_limit_hit, connection_attempt_count>>
    /\ UNCHANGED <<clicks, refreshes, sigints, handler_log>>

\* The operator presses Enter in _user_solve_captcha; _check_for_captcha
\* returns and the loop marks the button list for a refresh.
LoopCaptchaConfirm ==
    /\ UNCHANGED auxVars
    /\ pc = "captcha_wait"
    /\ captcha' = [captcha EXCEPT !.confirmed = TRUE]
    /\ pc' = IF CheckForCaptcha(captcha.kind) THEN "loop_top" ELSE "stale"
    /\ buttons_updated' = (buttons_updated \/ CheckForCaptcha(captcha.kind))
    /\ UNCHANGED <<sessVars, clickVars, loadVars, rateVars>>
    /\ UNCHANGED <<website_key, driver, shutdown_requested, exit_status, ret, ret_reason,
                   settings>>
    /\ UNCHANGED <<i, nbuttons, buttons_live, clipped_count, already_clipped_count,
                   connection_check_counter, already_clipped_map, already_clipped,
                   consecutive_success, rate_limit_hit, connection_attempt_count>>
    /\ UNCHANGED <<clicks, refreshes, sigints, handler_log, disturbances>>

\* The check that the clicked button is still attached, and "i += 1".
LoopStaleCheck ==
    /\ UNCHANGED auxVars
    /\ pc = "stale"
    /\ IF RapidActive(settings)
       THEN /\ i' = i + 1
            /\ UNCHANGED <<buttons_updated, consecutive_success, disturbances>>
       ELSE \E res \in IF ~ButtonsWork THEN {"stale", "raise"}
                       ELSE IF Budget THEN {"ok", "stale", "raise"} ELSE {"ok", "raise"} :
              /\ disturbances' = IF res = "stale" /\ ButtonsWork THEN disturbances + 1
                                 ELSE disturbances
              /\ buttons_updated' = (buttons_updated \/ res = "stale")
              /\ i' = IF res = "stale" THEN i ELSE i + 1
              /\ consecutive_success' = IF res = "raise" THEN 0 ELSE consecutive_success
    /\ pc' = "loop_top"
    /\ UNCHANGED <<sessVars, clickVars, loadVars, rateVars>>
    /\ UNCHANGED <<website_key, driver, shutdown_requested, exit_status, ret, ret_reason,
                   settings>>
    /\ UNCHANGED <<nbuttons, buttons_live, clipped_count, already_clipped_count,
                   connection_check_counter, already_clipped_map, already_clipped,
                   rate_limit_hit, connection_attempt_count>>
    /\ UNCHANGED <<clicks, refreshes, sigints, handler_log, captcha>>

\* "else:" the click failed; outside rapid mode a JavaScript click is tried.
LoopFallback ==
    /\ UNCHANGED auxVars
    /\ pc = "fallback"
    /\ \E js_ok \in IF ButtonsWork /\ ~settings.enable_rapid_mode THEN BOOLEAN
                    ELSE {FALSE} :
         IF js_ok
         THEN /\ clicks' = clicks + 1
              /\ captcha' = CaptchaClicked
              /\ pc' = "record_fb"
              /\ i' = i
         ELSE /\ pc' = "loop_top"
              /\ i' = i + 1
              /\ UNCHANGED <<clicks, captcha>>
    /\ UNCHANGED <<sessVars, clickVars, loadVars, rateVars>>
    /\ UNCHANGED <<website_key, driver, shutdown_requested, exit_status, ret, ret_reason,
                   settings>>
    /\ UNCHANGED <<nbuttons, buttons_updated, buttons_live, clipped_count,
                   already_clipped_count, connection_check_counter, already_clipped_map,
                   already_clipped, consecutive_success, rate_limit_hit,
                   connection_attempt_count>>
    /\ UNCHANGED <<refreshes, sigints, handler_log, disturbances>>

\* The bookkeeping after the JavaScript click, and "i += 1".
LoopRecordFallback ==
    /\ UNCHANGED auxVars
    /\ pc = "record_fb"
    /\ clipped_count' = clipped_count + 1
    /\ consecutive_success' = consecutive_success + 1
    /\ \E ok \in SaveOutcomes : RecordClippedCoupon(website_key, LoopCouponId, ok)
    /\ i' = i + 1
    /\ pc' = "loop_top"
    /\ UNCHANGED <<clickVars, loadVars, rateVars, histVars>>
    /\ UNCHANGED <<website_key, driver, shutdown_requested, exit_status, ret, ret_reason,
                   settings>>
    /\ UNCHANGED <<nbuttons, buttons_updated, buttons_live, already_clipped_count,
                   connection_check_counter, already_clipped_map, already_clipped,
                   rate_limit_hit, connection_attempt_count>>

\* main(): "0 to exit" in the selection loop (or "n" after an error), the
\* final statistics and close() in the finally clause.
MainQuit ==
    /\ UNCHANGED auxVars
    /\ pc = "menu"
    /\ driver' = DriverAfterQuit(driver)
    /\ \E ok \in SaveOutcomes :
         disk' = IF driver = "none" THEN disk
                 ELSE SaveSession(total_clipped, by_website, last_website, ok)
    /\ pc' = "exited"
    /\ exit_status' = <<0>>
    /\ UNCHANGED <<sessNoDisk, clickVars, loadVars, rateVars, loopVars, histVars>>
    /\ UNCHANGED <<website_key, shutdown_requested, ret, ret_reason, settings>>

\* The browser or its connection dies while clip_coupons runs. The loss is
\* placed before the driver check at the entry or at the head of a pass; a loss
\* inside a pass shows as the failing outcomes of the steps of that pass.
ConnectionLost ==
    /\ UNCHANGED auxVars
    /\ pc \in {"entry_driver", "loop_top"}
    /\ driver = "ok"
    /\ Budget
    /\ driver' = "lost"
    /\ disturbances' = disturbances + 1
    /\ UNCHANGED <<sessVars, clickVars, loadVars, rateVars, loopVars>>
    /\ UNCHANGED <<clicks, refreshes, sigints, handler_log, captcha>>
    /\ UNCHANGED <<pc, website_key, shutdown_requested, exit_status, ret, ret_reason,
                   settings>>

\* The page re-renders its coupon list before a button is classified: every
\* reference of coupon_buttons is stale from now on, and each operation on
\* one raises StaleElementReferenceException.
PageChanged ==
    /\ UNCHANGED auxVars
    /\ pc = "classify"
    /\ driver = "ok"
    /\ buttons_live
    /\ Budget
    /\ buttons_live' = FALSE
    /\ disturbances' = disturbances + 1
    /\ UNCHANGED <<sessVars, clickVars, loadVars, rateVars>>
    /\ UNCHANGED <<i, nbuttons, buttons_updated, clipped_count, already_clipped_count,
                   connection_check_counter, already_clipped_map, already_clipped,
                   consecutive_success, rate_limit_hit, connection_attempt_count>>
    /\ UNCHANGED <<clicks, refreshes, sigints, handler_log, captcha>>
    /\ UNCHANGED <<pc, website_key, driver, shutdown_requested, exit_status, ret,
                   ret_reason, settings>>

\* SIGINT: the handler runs and the SystemExit of its sys.exit(0) ends the
\* program (through main's finally clause, which calls close()).
SigInt ==
    /\ UNCHANGED auxVars
    /\ pc # "exited"
    /\ sigints < MaxSigints
    /\ RunHandler
    /\ pc' = "exited"
    /\ exit_status' = <<0>>
    /\ DropLocals
    /\ connection_check_counter' = 0
    /\ already_clipped' = FALSE
    /\ UNCHANGED <<sessNoDisk, clickVars, loadVars, rateVars>>
    /\ UNCHANGED <<website_key, ret, ret_reason, settings, consecutive_success,
                   rate_limit_hit, connection_attempt_count>>
    /\ UNCHANGED <<clicks, refreshes, disturbances>>

\* SIGINT while the loop is inside a bare "except:": the handler runs, the
\* SystemExit is swallowed and the interrupted function goes on
\* (_is_already_clipped then answers False).
SigIntSwallowed ==
    /\ UNCHANGED auxVars
    /\ ((pc = "classify" /\ ~MapCovers) \/ pc \in {"record", "record_fb"})
    /\ sigints < MaxSigints
    /\ RunHandler
    /\ IF pc = "classify"
       THEN /\ pc' = "click"
            /\ already_clipped' = FALSE
       ELSE UNCHANGED <<pc, already_clipped>>
    /\ UNCHANGED <<sessNoDisk, clickVars, loadVars, rateVars>>
    /\ UNCHANGED <<website_key, exit_status, ret, ret_reason, settings>>
    /\ UNCHANGED <<i, nbuttons, buttons_updated, buttons_live, clipped_count,
                   already_clipped_count, connection_check_counter, already_clipped_map,
                   consecutive_success, rate_limit_hit, connection_attempt_count>>
    /\ UNCHANGED <<clicks, refreshes, captcha, disturbances>>

ProcNext ==
    \/ MainSetupDriver
    \/ ClipEntry
    \/ ClipEntryDriver
    \/ ClipNavigateAndLoad
    \/ ClipFindButtons
    \/ LoopHead
    \/ LoopClassify
    \/ LoopClick
    \/ LoopRecord
    \/ LoopRateCheck
    \/ LoopCaptchaCheck
    \/ LoopCaptchaConfirm
    \/ LoopStaleCheck
    \/ LoopFallback
    \/ LoopRecordFallback
    \/ MainQuit
    \/ ConnectionLost
    \/ PageChanged
    \/ SigInt
    \/ SigIntSwallowed

(***************************************************************************)
(* The connection to the browser: setup_driver, check_driver_connection,   *)
(* the reset in clip_coupons and the loop's periodic check                 *)
(***************************************************************************)
\* one check_driver_connection call, as the history keeps it
CallRecord(drv, att, o) ==
    LET c == CheckDriverConnection(drv, att, o) IN
    [driver |-> drv, count |-> att, ok |-> c.ok, attempted |-> c.attempted,
     created |-> c.created, driver_after |-> c.driver, count_after |-> c.attempts]

\* The calls the loop's periodic check makes: the check, the check of the
\* recovery, and the one after the operator answered "1" (Try again).
CascadeCalls(drv, att, o1, o2, o3, choice) ==
    LET r1 == CallRecord(drv, att, o1)
        r2 == CallRecord(r1.driver_after, r1.count_after, o2)
        r3 == CallRecord(r2.driver_after, r2.count_after, o3)
    IN IF r1.ok THEN [calls |-> <<r1>>, choice |-> "none"]
       ELSE IF r2.ok THEN [calls |-> <<r1, r2>>, choice |-> "none"]
       ELSE IF choice \in {"2", "3"} THEN [calls |-> <<r1, r2>>, choice |-> choice]
       ELSE [calls |-> <<r1, r2, r3>>, choice |-> choice]

RECURSIVE CountAttempted(_)
CountAttempted(calls) ==
    IF calls = << >> THEN 0
    ELSE (IF Head(calls).attempted THEN 1 ELSE 0) + CountAttempted(Tail(calls))

\* what the connection steps leave alone
ConnFrame ==
    /\ UNCHANGED <<sessVars, clickVars, loadVars, rateVars>>
    /\ UNCHANGED <<pc, website_key, shutdown_requested, ret, ret_reason, settings>>
    /\ UNCHANGED <<i, nbuttons, buttons_updated, buttons_live, clipped_count,
                   already_clipped_count, connection_check_counter, already_clipped_map,
                   already_clipped, consecutive_success, rate_limit_hit>>
    /\ UNCHANGED <<clicks, refreshes, sigints, handler_log, captcha, delays>>

\* setup_driver(): a new driver and the count reset, or the exception
ConnSetupDriver ==
    /\ exit_status = Running
    /\ \E ok \in BOOLEAN :
         IF ok
         THEN /\ driver' = "ok"
              /\ connection_attempt_count' = 0
              /\ reconnects' = 0
         ELSE UNCHANGED <<driver, connection_attempt_count, reconnects>>
    /\ conn_log' = NoCalls
    /\ UNCHANGED <<disturbances, exit_status>>
    /\ ConnFrame

\* "Reset tracking variables" at the top of clip_coupons
ConnRunStart ==
    /\ exit_status = Running
    /\ connection_attempt_count' = 0
    /\ reconnects' = 0
    /\ conn_log' = NoCalls
    /\ UNCHANGED <<driver, disturbances, exit_status>>
    /\ ConnFrame

\* the browser goes away
ConnLost ==
    /\ exit_status = Running
    /\ driver = "ok"
    /\ disturbances < MaxLosses
    /\ driver' = "lost"
    /\ disturbances' = disturbances + 1
    /\ UNCHANGED <<connection_attempt_count, conn_log, reconnects, exit_status>>
    /\ ConnFrame

\* one call of check_driver_connection
ConnCheck ==
    /\ exit_status = Running
    /\ \E o \in ReconnectOutcomes :
         LET c == CheckDriverConnection(driver, connection_attempt_count, o) IN
         /\ driver' = c.driver
         /\ connection_attempt_count' = c.attempts
         /\ conn_log' = [calls |-> <<CallRecord(driver, connection_attempt_count, o)>>,
                         choice |-> "none"]
         /\ reconnects' = reconnects + (IF c.attempted THEN 1 ELSE 0)
    /\ UNCHANGED <<disturbances, exit_status>>
    /\ ConnFrame

\* the periodic check of the clipping loop, with the operator's answer
ConnLoopCheck ==
    /\ exit_status = Running
    /\ driver # "none"
    /\ \E o1 \in ReconnectOutcomes, o2 \in ReconnectOutcomes, o3 \in ReconnectOutcomes,
          choice \in ReconnectChoices :
         LET c == ConnCascade(driver, connection_attempt_count, o1, o2, o3, choice)
             log == CascadeCalls(driver, connection_attempt_count, o1, o2, o3, choice)
         IN
         /\ driver' = IF c.res = "exit" THEN DriverAfterQuit(c.driver) ELSE c.driver
         /\ exit_status' = IF c.res = "exit" THEN <<0>> ELSE exit_status
         /\ connection_attempt_count' = c.attempts
         /\ conn_log' = log
         /\ reconnects' = reconnects + CountAttempted(log.calls)
    /\ UNCHANGED disturbances
    /\ ConnFrame

ConnNext == ConnSetupDriver \/ ConnRunStart \/ ConnLost \/ ConnCheck \/ ConnLoopCheck

(***************************************************************************)
(* The delay before each click: site settings, _ask_clip_speed_preference  *)
(* and the bounds the clipping loop computes                               *)
(***************************************************************************)
\* what the operator can type for a custom delay, in milliseconds
CustomDelays == {0, 50, 100, 700, 2000}

\* the timings of the speed options 1 to 4
SpeedPreset(choice) ==
    CASE choice = "1" -> [min |-> 2000, max |-> 4000]
      [] choice = "2" -> [min |-> 1000, max |-> 2500]
      [] choice = "3" -> [min |-> 500, max |-> 1500]
      [] choice = "4" -> [min |-> 300, max |-> 700]

\* the options the prompt accepts
ValidSpeedOptions(d) ==
    {"1", "2", "3", "4", "6"} \cup (IF d.site_rapid_compatible THEN {"5"} ELSE {})

\* "Apply site-specific settings if available" at the top of clip_coupons
ApplySiteSettings(d, key) ==
    [d EXCEPT !.stage = "site",
              !.key = key,
              !.site_min_delay = SiteSpecificSettings(key).min_delay_override,
              !.site_max_delay = SiteSpecificSettings(key).max_delay_override,
              !.site_rapid_compatible = SiteSpecificSettings(key).rapid_mode_compatible,
              !.choice = "none", !.valid = FALSE, !.custom_min = 0, !.custom_max = 0,
              !.min_delay = 0, !.max_delay = 0]

\* _ask_clip_speed_preference(settings, website_key): confirm answers the
\* rapid-mode warning; valid, cmin, cmax are the custom inputs (valid: both parse
\* as floats).
AskSpeedDelays(d, choice, confirm, valid, cmin, cmax) ==
    LET chosen ==
            IF choice \in {"1", "2", "3", "4"}
            THEN [min |-> SpeedPreset(choice).min, max |-> SpeedPreset(choice).max,
                  rapid |-> FALSE]
            ELSE IF choice = "5"
            THEN IF confirm
                 THEN [min |-> RapidDelayMin, max |-> RapidDelayMax, rapid |-> TRUE]
                 ELSE [min |-> SpeedPreset("4").min, max |-> SpeedPreset("4").max,
                       rapid |-> FALSE]
            ELSE IF valid
            THEN [min |-> Max(CustomDelayFloor, cmin),
                  max |-> Max(Max(CustomDelayFloor, cmin), cmax), rapid |-> FALSE]
            ELSE [min |-> DefaultDelayMin, max |-> DefaultDelayMax, rapid |-> FALSE]
        site == SiteSpecificSettings(d.key)
        overridden == choice \notin {"5", "6"}
    IN [d EXCEPT !.stage = "asked",
                 !.choice = choice,
                 !.valid = (choice = "6" /\ valid),
                 !.custom_min = IF choice = "6" /\ valid THEN cmin ELSE 0,
                 !.custom_max = IF choice = "6" /\ valid THEN cmax ELSE 0,
                 !.enable_rapid_mode = chosen.rapid,
                 !.random_delay_min =
                     IF overridden /\ site.min_delay_override # Unbound
                     THEN site.min_delay_override[1] ELSE chosen.min,
                 !.random_delay_max =
                     IF overridden /\ site.max_delay_override # Unbound
                     THEN site.max_delay_override[1] ELSE chosen.max]

\* "Calculate initial delay based on settings and site-specific overrides"
\* and "Apply rapid mode settings if enabled": min_delay and max_delay
LoopDelayBounds(d) ==
    LET rapid == d.enable_rapid_mode /\ d.site_rapid_compatible IN
    [d EXCEPT !.stage = "loop",
              !.min_delay = IF rapid THEN RapidDelayMin
                            ELSE IF d.site_min_delay # Unbound THEN d.site_min_delay[1]
                            ELSE d.random_delay_min,
              !.max_delay = IF rapid THEN RapidDelayMax
                            ELSE IF d.site_max_delay # Unbound THEN d.site_max_delay[1]
                            ELSE d.random_delay_max]

\* what the delay steps leave alone
DelayFrame ==
    /\ UNCHANGED <<sessVars, clickVars, loadVars, rateVars, procVars, loopVars, histVars>>
    /\ UNCHANGED <<conn_log, reconnects>>

\* clip_coupons(key) starts; the settings dict is the one earlier runs left
DelayRunStart ==
    /\ delays.stage \in {"idle", "loop"}
    /\ \E key \in Keys : delays' = ApplySiteSettings(delays, key)
    /\ DelayFrame

\* the operator answers the speed prompt
DelayAskSpeed ==
    /\ delays.stage = "site"
    /\ \E choice \in ValidSpeedOptions(delays), confirm \in BOOLEAN, valid \in BOOLEAN,
          cmin \in CustomDelays, cmax \in CustomDelays :
         /\ choice # "5" => confirm
         /\ choice # "6" => (valid /\ cmin = 0 /\ cmax = 0)
         /\ ~valid => (cmin = 0 /\ cmax = 0)
         /\ delays' = AskSpeedDelays(delays, choice, confirm, valid, cmin, cmax)
    /\ DelayFrame

\* the loop's delay bounds are computed
DelayLoopBounds ==
    /\ delays.stage = "asked"
    /\ delays' = LoopDelayBounds(delays)
    /\ DelayFrame

DelayNext == DelayRunStart \/ DelayAskSpeed \/ DelayLoopBounds

(***************************************************************************)
(* Specifications and claims                                               *)
(***************************************************************************)
\* a fresh SessionManager; nothing else is running
InitSession == SessionInit /\ ClickIdle /\ LoadIdle /\ RateIdle /\ ProcIdle

SpecSession ==
    InitSession
        /\ [][SessNext /\ UNCHANGED <<clickVars, loadVars, rateVars, procVars, loopVars, histVars, auxVars>>]_vars

\* C7: from a fresh session, total_clipped equals the number of
\* record_clipped_coupon calls and the sum of by_website over all websites.
\* Each call adds exactly 1 to total_clipped and to by_website[website] and
\* leaves the count of every other website as it was.
C7_TotalsAgree ==
    /\ [](total_clipped = record_calls /\ total_clipped = (SumOver(by_website, DOMAIN by_website)))
    /\ [][record_calls' # record_calls =>
            /\ record_calls' = record_calls + 1
            /\ total_clipped' = total_clipped + 1
            /\ \E w \in Websites :
                 /\ DictGet(by_website', w, 0) = DictGet(by_website, w, 0) + 1
                 /\ \A x \in Websites \ {w} :
                      DictGet(by_website', x, 0) = DictGet(by_website, x, 0)]_vars

C7_Witness ==
    /\ record_calls = 3
    /\ Cardinality(DOMAIN by_website) = 2

\* a fresh SessionManager on a disk that never fails
InitSessionSaved == SessionInit /\ ClickIdle /\ LoadIdle /\ RateIdle /\ ProcIdle

SpecSessionSaved ==
    InitSessionSaved
        /\ [][SessSavedNext /\ UNCHANGED <<clickVars, loadVars, rateVars, procVars, loopVars, histVars, auxVars>>]_vars

\* C11: from a fresh session and with every save succeeding, the total_clipped
\* on disk (0 while nothing has been written) is never more than 4 behind the
\* total_clipped in memory, and never ahead of it.
C11_SavedEveryFew ==
    /\ total_clipped - LoadedTotal <= 4
    /\ LoadedTotal <= total_clipped

\* nine coupons recorded, the file still holding the save made at the fifth
C11_Witness ==
    /\ total_clipped = 9
    /\ disk # NoFile
    /\ disk.total = 5

\* a button and a browser behaviour for one _enhanced_click_button call
InitClick == SessionInit /\ ClickStart /\ LoadIdle /\ RateIdle /\ ProcIdle

SpecClick ==
    InitClick
        /\ [][ClickCall /\ UNCHANGED <<sessVars, loadVars, rateVars, procVars, loopVars, histVars, auxVars>>]_vars

\* the first n strategies, in source order
Prefix(n) == SubSeq(Strategies, 1, n)

\* C3: the strategies are attempted strictly in source order; the call returns
\* True right after the first strategy that does not raise, having attempted no
\* later one; it returns False only when all six raised or the pre-check failed.
C3_CascadeOrder ==
    click_out # NoCall =>
        /\ \E n \in 0..NumStrategies : click_out.attempted = Prefix(n)
        /\ click_out.result =>
              LET n == Len(click_out.attempted) IN
              /\ n >= 1
              /\ click_in.works[n]
              /\ click_out.clicked = Strategies[n]
              /\ \A k \in 1..(n - 1) : ~click_in.works[k]
        /\ ~click_out.result =>
              /\ click_out.clicked = "none"
              /\ \/ PreCheck(click_in) # "pass" /\ click_out.attempted = << >>
                 \/ /\ click_out.attempted = Strategies
                    /\ \A k \in 1..NumStrategies : ~click_in.works[k]

C3_Witness ==
    /\ click_out.result
    /\ click_out.attempted = Prefix(4)
    /\ click_in.works[5]

\* the entry of one _click_button call
InitClickButton == SessionInit /\ ClickButtonStart /\ LoadIdle /\ RateIdle /\ ProcIdle

SpecClickButton ==
    InitClickButton
        /\ [][ClickButtonNext /\ UNCHANGED <<sessVars, loadVars, rateVars, procVars, loopVars, histVars, auxVars>>]_vars

\* every technique attempt k reached raised
AttemptFailed(k) ==
    \A j \in 1..Len(click_out.attempted[k]) :
        ~TechniqueWorks(click_in[k], click_out.attempted[k][j])

\* C15: at most max_retries attempts; an attempt reaches its techniques in
\* the order native, JavaScript, action chain, the JavaScript click only after
\* an intercepted native click (a failed scrollIntoView goes straight to the
\* action chain); True is returned at the first technique that does not
\* raise, which is the only one that clicked; False is returned after
\* max_retries attempts in which every technique raised.
C15_ClickButtonRetries ==
    LET n == Len(click_in) IN
    /\ n <= max_retries
    /\ Len(click_out.attempted) = n
    /\ \A k \in 1..n :
         LET tried == click_out.attempted[k] IN
         /\ tried \in {<<"native">>, <<"native", "js">>, <<"native", "js", "action_chain">>,
                       <<"native", "action_chain">>, <<"action_chain">>}
         /\ (\E j \in 1..Len(tried) : tried[j] = "js") =>
               click_in[k].scroll /\ click_in[k].native = "intercepted"
         /\ (k < n \/ click_out.result # "True") =>
               AttemptFailed(k) /\ tried[Len(tried)] = "action_chain"
    /\ click_out.result = "True" =>
         LET tried == click_out.attempted[n] IN
         /\ n >= 1
         /\ click_out.clicked = tried[Len(tried)]
         /\ TechniqueWorks(click_in[n], click_out.clicked)
         /\ \A j \in 1..(Len(tried) - 1) : ~TechniqueWorks(click_in[n], tried[j])
    /\ click_out.result = "False" => n = max_retries /\ click_out.clicked = "none"
    /\ click_out.result # Pending =>
         /\ ClickButton(click_in).result = (click_out.result = "True")
         /\ ClickButton(click_in).made = n

\* two failed attempts, then a JavaScript click after an intercepted native one
C15_Witness ==
    /\ click_out.result = "True"
    /\ Len(click_in) = 3
    /\ click_out.clicked = "js"
    /\ click_out.attempted[1] = <<"action_chain">>
    /\ click_out.attempted[2] = <<"native", "js", "action_chain">>

\* the entry of _load_all_content with some load_more_max_attempts
InitLoad == SessionInit /\ ClickIdle /\ LoadStart /\ RateIdle /\ ProcIdle

SpecLoad ==
    InitLoad
        /\ [][LoadNext /\ UNCHANGED <<sessVars, clickVars, rateVars, procVars, loopVars, histVars, auxVars>>]_vars

\* C5: the loading loop runs at most 8 times and cannot continue after the
\* 8th; at most load_more_max_attempts load-more clicks succeed; no scroll pass
\* makes more than 3 scroll attempts, however long the page keeps growing.
C5_LoadBounded ==
    /\ loop_iters <= max_iterations
    /\ (load_pc = "loop" /\ loop_iters = max_iterations) => ~ENABLED LoadIteration
    /\ load_more_attempts <= max_attempts
    /\ scroll_max <= max_scroll_attempts

\* eight iterations of a page that is still growing, every scroll pass cut at 3
C5_Witness ==
    /\ loop_iters = max_iterations
    /\ content_changed
    /\ content_growth = Bound(MinimalGrowth)
    /\ scroll_max = max_scroll_attempts
    /\ load_pc = "done"

\* the step is an iteration of the loading loop whose try block ran to its
\* end (no read of page_source and no scroll pass raised)
IterationMeasured ==
    /\ load_pc = "loop"
    /\ loop_iters' = loop_iters + 1
    /\ iterations' = iterations + 1
    /\ load_pc' # "raised"

\* C14: an iteration that clicked no load-more button and saw growth of at
\* most 500 is the last, and so is one that clicked and re-measured growth
\* below 500 after its extra scroll pass; no iteration follows once
\* content_changed is False; the call makes one final scroll pass after the
\* loop, and has made it when it returns.
C14_StopsAtPlateau ==
    /\ [][IterationMeasured =>
            /\ (/\ load_more_attempts' = load_more_attempts
                /\ content_growth'[1] <= GrowthThreshold) => ~content_changed'
            /\ (/\ load_more_attempts' = load_more_attempts + 1
                /\ recheck_growth' # Unbound
                /\ recheck_growth'[1] < GrowthThreshold) => ~content_changed']_vars
    /\ [](~content_changed => ~ENABLED LoadIteration)
    /\ [][loop_iters' # loop_iters => final_passes' = 0]_vars
    /\ [](final_passes <= 1 /\ (load_pc = "done" => final_passes = 1))

\* one iteration: a click, growth of 499 at both measurements, the loop left
\* for the final scroll pass
C14_Witness ==
    /\ load_pc = "done"
    /\ loop_iters = 1
    /\ load_more_attempts = 1
    /\ recheck_growth = Bound(499)
    /\ ~content_changed
    /\ scroll_passes = 3
    /\ final_passes = 1

\* the rate-limit tracking of a new CouponClipper
InitRate == SessionInit /\ ClickIdle /\ LoadIdle /\ RateStart /\ ProcIdle

SpecRate ==
    InitRate
        /\ [][RateNext /\ UNCHANGED <<sessVars, clickVars, loadVars, procVars, loopVars, histVars, auxVars>>]_vars

\* C1: a check returns True only when the page has shown a rate-limit
\* indication in at least rate_limit_threshold consecutive checks of the run.
C1_ThresholdBeforeTrue ==
    last_check.detected => consec_seen >= rate_limit_threshold

\* C2: every call waits min(max_backoff_time, backoff_time) seconds, the
\* backoff_time it found, and leaves min(max_backoff_time, backoff_time * factor);
\* the waits never decrease and never exceed max_backoff_time.
C2_WaitIsBackoff ==
    last_wait # NoWait =>
        /\ last_wait.slept * BackoffScale = MinOf(max_backoff_time * BackoffScale, last_wait.before)
        /\ backoff_time = NextBackoff(last_wait.before)
        /\ last_wait.slept >= last_wait.previous
        /\ last_wait.slept <= max_backoff_time

\* C12: rate_limit_count is the number of consecutive checks, up to now in
\* this run, whose page showed a rate-limit indication: 0 when the run starts,
\* 0 after a check that found none, one more after a check that found one
\* (with the default settings: detection enabled, main content checked).
C12_CountIsConsecutive ==
    rate_settings = DefaultRateSettings => rate_limit_count = consec_seen

\* The whole program: main() drives one clip_coupons run, with the browser's
\* behaviour, the operator's answers and SIGINT as the environment.
Init == SessionInit /\ ClickIdle /\ LoadIdle /\ RateIdle /\ ProcInit

Spec == Init /\ [][ProcNext]_vars

\* C4: a button classified as already clipped reaches no click strategy; the
\* step that classifies it skips it: index + 1, already_clipped_count + 1,
\* nothing recorded in the session and no click delivered.
C4_ClippedNeverClicked ==
    /\ [](pc \in {"click", "fallback", "record", "record_fb"} => ~already_clipped)
    /\ [][(pc = "classify" /\ already_clipped') =>
            /\ pc' = "loop_top"
            /\ i' = i + 1
            /\ already_clipped_count' = already_clipped_count + 1
            /\ clicks' = clicks
            /\ UNCHANGED <<total_clipped, by_website, clipped_coupons, record_calls>>]_vars

\* one button clipped, the next one skipped as already clipped
C4_Witness ==
    /\ pc = "loop_top"
    /\ already_clipped
    /\ i = 2
    /\ already_clipped_count = 1
    /\ total_clipped = 1

\* C6: for a non-Cloudflare CAPTCHA the check waits for the operator; while it
\* waits no button is clicked and the page is not refreshed; the wait ends only
\* by the confirmation (or the end of the process), after which the list is
\* marked for a re-find with the index where it was, and the list is re-found
\* before the next click.
C6_CaptchaHandOver ==
    /\ [](pc = "captcha_wait" => ~captcha.confirmed)
    /\ [][(pc = "captcha_wait" /\ captcha.kind = "other") =>
            /\ clicks' = clicks
            /\ refreshes' = refreshes
            /\ pc' # "captcha_wait" =>
                  \/ pc' = "exited"
                  \/ /\ captcha'.confirmed
                     /\ buttons_updated'
                     /\ pc' = "loop_top"
                     /\ i' = i]_vars
    /\ []((captcha.kind = "other" /\ captcha.confirmed) =>
            /\ captcha.clicks_since = 0
            /\ (~captcha.refound_since /\ InClippingLoop) =>
                  (i = captcha.index /\ buttons_updated))

\* a CAPTCHA met after the second button, confirmed, and the list re-found
C6_Witness ==
    /\ captcha.kind = "other"
    /\ captcha.confirmed
    /\ captcha.refound_since
    /\ captcha.index = 1
    /\ pc = "classify"
    /\ i = 0

\* C8: a SIGINT during the clipping loop pauses the process at the control menu
\* and does not end the program.
C8_CtrlCShowsMenu ==
    [][(sigints' = sigints + 1 /\ InClippingLoop) =>
          (pc' = "control_menu" /\ exit_status' = Running)]_vars

\* C9: the handler sets shutdown_requested, saves the session before it quits
\* the browser, and the process then exits with status 0; no button is clicked
\* once the handler has started.
C9_GracefulShutdown ==
    /\ [][sigints' = sigints + 1 =>
            /\ shutdown_requested'
            /\ handler_log' \in {<<"flag", "save", "quit", "exit">>,
                                 <<"flag", "save", "exit">>}
            /\ disk' = Snapshot(total_clipped, by_website, last_website)
            /\ exit_status' = <<0>>]_vars
    /\ [][shutdown_requested => clicks' <= clicks]_vars

\* C10: clip_coupons returns True exactly when the loop ran to its end over
\* the button list, and False when it ended early.
C10_ReturnValue ==
    ret # NoRet => (ret = <<TRUE>> <=> ret_reason = "completed")

\* the step runs _handle_rate_limit (the check after a successful click was
\* positive, and was not overruled by the operator)
HandlesRateLimit == pc = "rate" /\ last_wait' # last_wait

\* the step is the head of a pass of the loop (which counts the pass in
\* connection_check_counter), not an event of the environment
StartsPass == pc = "loop_top" /\ connection_check_counter' # connection_check_counter

\* Between the handler and the next click the list is re-found: a pass that
\* finds buttons_updated set clears it, restarts at index 0 with the new list
\* when the re-find returned one and keeps index and list otherwise; no
\* button is classified or clicked while buttons_updated is set.
RefindBeforeClick ==
    /\ [](pc \in {"classify", "click", "fallback"} => ~buttons_updated)
    /\ [][(StartsPass /\ buttons_updated /\ pc' = "loop_top") =>
            (i' = 0 /\ ~buttons_updated' /\ buttons_live' /\ nbuttons' > 0)]_vars
    /\ [][(StartsPass /\ buttons_updated /\ pc' = "classify") =>
            (i' = i /\ ~buttons_updated' /\ nbuttons' = nbuttons)]_vars

HandlesStaleButton ==
    /\ \/ pc = "classify" /\ ~MapCovers
       \/ pc = "click"
    /\ driver = "ok"
    /\ ~buttons_live
    /\ pc' # pc
    /\ pc' # "exited"

\* C19: a button whose reference is stale when it is classified or clicked
\* makes the loop set buttons_updated and start the next pass at the same
\* index, with nothing recorded for the button.
C19_StaleButtonRefound ==
    [][HandlesStaleButton =>
          /\ buttons_updated'
          /\ i' = i
          /\ pc' = "loop_top"
          /\ UNCHANGED <<total_clipped, clipped_coupons, clipped_count>>]_vars

\* a new CouponClipper: no driver yet, no connection attempt counted
InitConn == SessionInit /\ ClickIdle /\ LoadIdle /\ RateIdle /\ ProcIdle

SpecConn == InitConn /\ [][ConnNext]_vars

\* C16: at most max_recovery_attempts reconnection attempts are started
\* between two resets of connection_attempt_count; a check that finds the
\* connection broken when the count is at the maximum returns False, starts
\* no attempt, creates no driver and leaves count and driver as they were.
C16_RecoveryBounded ==
    /\ reconnects <= max_recovery_attempts
    /\ connection_attempt_count <= max_recovery_attempts
    /\ \A k \in 1..Len(conn_log.calls) :
         LET r == conn_log.calls[k] IN
         (r.driver \in {"lost", "quit"} /\ r.count >= max_recovery_attempts) =>
             /\ ~r.ok
             /\ ~r.attempted
             /\ ~r.created
             /\ r.count_after = r.count
             /\ r.driver_after = r.driver

\* the fourth loss since the reset: the check gives up
C16_Witness ==
    /\ reconnects = max_recovery_attempts
    /\ disturbances = 4
    /\ Len(conn_log.calls) = 1
    /\ conn_log.calls[1].driver = "lost"
    /\ conn_log.calls[1].count = max_recovery_attempts
    /\ driver = "lost"

\* C17: a check_driver_connection call that reconnects successfully leaves
\* connection_attempt_count at 0, as a successful setup_driver does.
C17_CountResetOnConnect ==
    \A k \in 1..Len(conn_log.calls) :
        LET r == conn_log.calls[k] IN
        (r.attempted /\ r.ok) => r.count_after = 0

\* C18: when the periodic check could not reconnect and the operator answers
\* "1", the check that follows starts a reconnection attempt, provided fewer
\* than max_recovery_attempts attempts have been made.
C18_TryAgainReconnects ==
    (conn_log.choice = "1" /\ Len(conn_log.calls) = 3) =>
        (conn_log.calls[3].count < max_recovery_attempts => conn_log.calls[3].attempted)

\* a new CouponClipper with the default configuration
InitDelay == SessionInit /\ ClickIdle /\ LoadIdle /\ RateIdle /\ ProcIdle

SpecDelay == InitDelay /\ [][DelayNext]_vars

\* C20: after the Custom speed option (with inputs that parse), the delay
\* bounds of the clipping loop are the custom values, the minimum raised to at
\* least 0.1 s and the maximum to at least the minimum, for every website.
C20_CustomSpeedKept ==
    (delays.stage = "loop" /\ delays.choice = "6" /\ delays.valid) =>
        /\ delays.min_delay = Max(CustomDelayFloor, delays.custom_min)
        /\ delays.max_delay = Max(Max(CustomDelayFloor, delays.custom_min), delays.custom_max)

====
